---- MODULE Spec2Model ----
(***************************************************************************)
(* A model of the RESP server of cjshearer/codecrafters-redis-rust:        *)
(*   - the Frame data model and its prefix bytes        (src/src/frame.rs) *)
(*   - Connection::write_frame / read_frame and the buffer helpers         *)
(*                                                 (src/src/connection.rs) *)
(*   - Command::try_from                              (src/src/command.rs) *)
(*   - Db::apply over the shared, mutex-guarded keystore   (src/src/db.rs) *)
(*   - the per-connection loop of main                   (src/src/main.rs) *)
(*                                                                         *)
(* Bytes are integers 0..255.  Option<T> is a sequence of length at most   *)
(* one: None is <<>>, Some(x) is <<x>>.                                    *)
(***************************************************************************)
EXTENDS Integers, Sequences, FiniteSets, TLC

(***************************************************************************)
(* Bounds of the model.                                                    *)
(***************************************************************************)
\* widest array among the generated frames
MaxWidth == 2
\* most frames carried by one stream in the codec harness
MaxFrames == 2
\* most requests a client sends on its connection
MaxRequests == 2
\* most stream writes that fail on one connection
MaxWriteFail == 1
\* the tasks that share the keystore are 1..NTasks
NTasks == 2
\* the frames handed to Command::try_from carry up to MaxArgs arguments
\* between the command name and the options
MaxArgs == 2
\* the monotonic clock runs from 0 to MaxNow (milliseconds)
MaxNow == 1

(***************************************************************************)
(* Bytes.                                                                  *)
(***************************************************************************)
LF == 10
CR == 13
CRLF == <<CR, LF>>

\* b'*', b'#', b'$', b'-', b':', b'_', b'+'
ArrayPrefix == 42
BooleanPrefix == 35
BulkPrefix == 36
ErrorPrefix == 45
IntegerPrefix == 58
NullPrefix == 95
StringPrefix == 43

\* b't' and b'f'
ByteT == 116
ByteF == 102

\* '0', '+' and '-' as the integer formatter and parser of the standard
\* library read and write them
Digit0 == 48
PlusSign == 43
MinusSign == 45

None == <<>>
Some(x) == <<x>>

Last(s) == s[Len(s)]
Front(s) == SubSeq(s, 1, Len(s) - 1)
\* BytesMut::split_to(at): the first `at` bytes; the buffer keeps the rest
SplitTo(s, at) == SubSeq(s, 1, at)
Rest(s, at) == SubSeq(s, at + 1, Len(s))

(***************************************************************************)
(* Frame (frame.rs).  A frame is [tag, val]; val is the payload: bytes for *)
(* String and Error, an integer for Integer, a boolean for Boolean,        *)
(* Option<bytes> for Bulk, Option<sequence of frames> for Array.           *)
(***************************************************************************)
FString(b) == [tag |-> "String", val |-> b]
FError(b) == [tag |-> "Error", val |-> b]
FInteger(i) == [tag |-> "Integer", val |-> i]
FBulk(opt) == [tag |-> "Bulk", val |-> opt]
FArray(opt) == [tag |-> "Array", val |-> opt]
FNull == [tag |-> "Null", val |-> <<>>]
FBoolean(b) == [tag |-> "Boolean", val |-> b]

\* Frame::prefix: the discriminant the macro gives each variant
FramePrefix(frame) ==
    CASE frame.tag = "Array" -> ArrayPrefix
      [] frame.tag = "Boolean" -> BooleanPrefix
      [] frame.tag = "Bulk" -> BulkPrefix
      [] frame.tag = "Error" -> ErrorPrefix
      [] frame.tag = "Integer" -> IntegerPrefix
      [] frame.tag = "Null" -> NullPrefix
      [] frame.tag = "String" -> StringPrefix

\* Prefix::try_from(u8): the bytes that name a variant; any other byte is
\* InvalidPrefix
PrefixBytes ==
    {ArrayPrefix, BooleanPrefix, BulkPrefix, ErrorPrefix, IntegerPrefix,
     NullPrefix, StringPrefix}

\* Frame::bytes: the payload of a String or of a non-null Bulk
FrameBytes(frame) ==
    CASE frame.tag = "String" -> Some(frame.val)
      [] frame.tag = "Bulk" /\ frame.val # None -> Some(frame.val[1])
      [] OTHER -> None

\* Frame::i64: the value of an Integer
FrameI64(frame) == IF frame.tag = "Integer" THEN Some(frame.val) ELSE None

\* Bool::try_from(&[u8]): Some(bool) for b"t" and b"f", None for InvalidBool
\* mutant: the first byte decides
BoolTryFromFirstByte(value) ==
    CASE value # <<>> /\ Head(value) = ByteT -> Some(TRUE)
      [] value # <<>> /\ Head(value) = ByteF -> Some(FALSE)
      [] OTHER -> None

BoolTryFrom(value) ==
    CASE value = <<ByteT>> -> Some(TRUE)
      [] value = <<ByteF>> -> Some(FALSE)
      [] OTHER -> None

\* impl From<Bool> for u8
BoolToU8(b) == IF b THEN ByteT ELSE ByteF

(***************************************************************************)
(* Decimal text: to_string() and str::parse of the standard library.       *)
(***************************************************************************)
RECURSIVE NatToString(_)
NatToString(n) ==
    IF n < 10 THEN <<Digit0 + n>>
    ELSE Append(NatToString(n \div 10), Digit0 + (n % 10))

\* i64::to_string and usize::to_string
IntToString(i) == IF i < 0 THEN <<MinusSign>> \o NatToString(-i) ELSE NatToString(i)

IsDigit(b) == b >= Digit0 /\ b <= Digit0 + 9

RECURSIVE DigitsValue(_)
DigitsValue(s) ==
    IF s = <<>> THEN 0 ELSE 10 * DigitsValue(Front(s)) + (Last(s) - Digit0)

AllDigits(s) == s # <<>> /\ \A i \in 1..Len(s) : IsDigit(s[i])

\* str::from_utf8 on the header bytes; the bytes of the model above 0x7F
\* (0xFF) occur in no valid UTF-8 text
Utf8Valid(s) == \A i \in 1..Len(s) : s[i] < 128

\* str::parse::<usize>: an optional '+', then at least one digit
ParseUsize(s) ==
    LET body == IF s # <<>> /\ s[1] = PlusSign THEN Tail(s) ELSE s
    IN  IF AllDigits(body) THEN Some(DigitsValue(body)) ELSE None

\* str::parse::<i64>: an optional '+' or '-', then at least one digit
ParseI64(s) ==
    LET signed == s # <<>> /\ s[1] \in {PlusSign, MinusSign}
        body == IF signed THEN Tail(s) ELSE s
    IN  IF ~AllDigits(body) THEN None
        ELSE IF signed /\ s[1] = MinusSign THEN Some(0 - DigitsValue(body))
        ELSE Some(DigitsValue(body))

(***************************************************************************)
(* Connection::write_frame, the serialization loop (connection.rs 148-178).*)
(* iter_stack is the stack of slice iterators: each entry is the sequence  *)
(* of frames its iterator has still to yield.  connection.rs takes the     *)
(* payload of a Bulk and of an Array as it stands (len(), as_ref(),        *)
(* iter()); it has no branch for the null payload that frame.rs declares,  *)
(* so an absent payload is written as one of length 0.                     *)
(***************************************************************************)
PayloadOf(opt) == IF opt = None THEN <<>> ELSE opt[1]

\* the bytes one visited frame puts between its prefix byte and its CRLF
FrameBody(frame) ==
    CASE frame.tag = "Array" -> IntToString(Len(PayloadOf(frame.val)))
      [] frame.tag = "Boolean" -> <<BoolToU8(frame.val)>>
      [] frame.tag = "Bulk" ->
            IntToString(Len(PayloadOf(frame.val))) \o CRLF \o PayloadOf(frame.val)
      [] frame.tag = "Error" -> frame.val
      [] frame.tag = "Integer" -> IntToString(frame.val)
      [] frame.tag = "Null" -> <<>>
      [] frame.tag = "String" -> frame.val

RECURSIVE WriteLoop(_, _)
WriteLoop(iter_stack, buf) ==
    IF iter_stack = <<>> \/ Last(iter_stack) = <<>> THEN buf
    ELSE LET iter == Last(iter_stack)
             frame == Head(iter)
             remaining == Len(iter) - 1
             popped == IF remaining = 0 THEN Front(iter_stack)
                       ELSE [iter_stack EXCEPT ![Len(iter_stack)] = Tail(iter)]
             pushed == IF frame.tag = "Array" /\ Len(PayloadOf(frame.val)) > 0
                       THEN Append(popped, PayloadOf(frame.val))
                       ELSE popped
         IN  WriteLoop(pushed,
                       buf \o <<FramePrefix(frame)>> \o FrameBody(frame) \o CRLF)

\* what write_frame(frame) leaves in a write buffer that held buf
Serialize(buf, frame) == WriteLoop(<< <<frame>> >>, buf)

Encode(frame) == Serialize(<<>>, frame)

(***************************************************************************)
(* The bytes a RESP peer sends for a frame: as write_frame writes them,    *)
(* but with the length -1 and no payload for the null Bulk and the null    *)
(* Array.                                                                  *)
(***************************************************************************)
RECURSIVE RespEncode(_)
RECURSIVE RespEncodeAll(_)
RespEncode(frame) ==
    CASE frame.tag \in {"Bulk", "Array"} /\ frame.val = None ->
            <<FramePrefix(frame)>> \o IntToString(-1) \o CRLF
      [] frame.tag = "Array" /\ frame.val # None ->
            <<FramePrefix(frame)>> \o IntToString(Len(frame.val[1])) \o CRLF
                \o RespEncodeAll(frame.val[1])
      [] OTHER -> Encode(frame)
RespEncodeAll(fs) ==
    IF fs = <<>> THEN <<>> ELSE RespEncode(Head(fs)) \o RespEncodeAll(Tail(fs))

(***************************************************************************)
(* Command (command.rs 5-20).  A command is [op, key, value, expires]:     *)
(* Echo keeps its message in value; expires is Option<Instant>, an instant *)
(* being a number of milliseconds on the monotonic clock.                  *)
(***************************************************************************)
Ping == [op |-> "Ping", key |-> <<>>, value |-> <<>>, expires |-> None]
Echo(message) == [op |-> "Echo", key |-> <<>>, value |-> message, expires |-> None]
Get(key) == [op |-> "Get", key |-> key, value |-> <<>>, expires |-> None]
Set(key, value, expires) ==
    [op |-> "Set", key |-> key, value |-> value, expires |-> expires]

CmdOk(cmd) == [ok |-> TRUE, cmd |-> cmd, err |-> ""]
CmdErr(e) == [ok |-> FALSE, cmd |-> Ping, err |-> e]
\* no frame has been handed to try_from yet
NoParse == [ok |-> FALSE, cmd |-> Ping, err |-> ""]

\* mutant: the letter case is kept
LowerByteKeepsCase(b) == b

\* make_ascii_lowercase
LowerByte(b) == IF b >= 65 /\ b <= 90 THEN b + 32 ELSE b
MakeAsciiLowercase(s) == [i \in 1..Len(s) |-> LowerByte(s[i])]

\* b"ping", b"echo", b"get", b"set", b"ex", b"px"
NamePing == <<112, 105, 110, 103>>
NameEcho == <<101, 99, 104, 111>>
NameGet == <<103, 101, 116>>
NameSet == <<115, 101, 116>>
NameEx == <<101, 120>>
NamePx == <<112, 120>>

\* the next! macro (40-47) on the argument at index i: the error it returns
\* early with, "" when the accessor yields a value
NextError(args, i, accessor) ==
    IF i > Len(args) THEN "MissingArgument"
    ELSE IF accessor = "bytes" /\ FrameBytes(args[i]) = None THEN "WrongType"
    ELSE IF accessor = "i64" /\ FrameI64(args[i]) = None THEN "WrongType"
    ELSE ""

\* the next_uint! macro (49-53): next!(i64), then the conversion to u64
NextUintError(args, i) ==
    IF NextError(args, i, "i64") # "" THEN NextError(args, i, "i64")
    ELSE IF FrameI64(args[i])[1] < 0 THEN "WrongType"
    ELSE ""

\* the loop over the options of SET (84-100), from the argument at index i
RECURSIVE SetOptions(_, _, _, _, _, _)
SetOptions(args, i, key, value, expires, t_now) ==
    IF i > Len(args) THEN CmdOk(Set(key, value, expires))
    ELSE IF FrameBytes(args[i]) = None THEN CmdErr("WrongType")
    ELSE LET arg == MakeAsciiLowercase(FrameBytes(args[i])[1])
         IN  IF arg \notin {NameEx, NamePx} THEN CmdErr("UnexpectedArgument")
             ELSE IF NextUintError(args, i + 1) # ""
             THEN CmdErr(NextUintError(args, i + 1))
             ELSE LET n == FrameI64(args[i + 1])[1]
                      duration == IF arg = NameEx THEN 1000 * n ELSE n
                  IN  SetOptions(args, i + 2, key, value, Some(t_now + duration),
                                 t_now)

\* Command::try_from(Frame) (31-110); t_now is what Instant::now() returns
TryFrom(value, t_now) ==
    IF value.tag # "Array" \/ value.val = None THEN CmdErr("NotAnArray")
    ELSE LET args == value.val[1]
         IN  IF NextError(args, 1, "bytes") # ""
             THEN CmdErr(NextError(args, 1, "bytes"))
             ELSE LET command == MakeAsciiLowercase(FrameBytes(args[1])[1])
                  IN  CASE command = NamePing -> CmdOk(Ping)
                        [] command = NameEcho ->
                             IF NextError(args, 2, "bytes") # ""
                             THEN CmdErr(NextError(args, 2, "bytes"))
                             ELSE CmdOk(Echo(FrameBytes(args[2])[1]))
                        [] command = NameGet ->
                             IF NextError(args, 2, "bytes") # ""
                             THEN CmdErr(NextError(args, 2, "bytes"))
                             ELSE CmdOk(Get(FrameBytes(args[2])[1]))
                        [] command = NameSet ->
                             IF NextError(args, 2, "bytes") # ""
                             THEN CmdErr(NextError(args, 2, "bytes"))
                             ELSE IF NextError(args, 3, "bytes") # ""
                             THEN CmdErr(NextError(args, 3, "bytes"))
                             ELSE SetOptions(args, 4, FrameBytes(args[2])[1],
                                             FrameBytes(args[3])[1], None, t_now)
                        [] OTHER -> CmdErr("UnknownCommand")

\* Command::is_write
IsWrite(cmd) == cmd.op = "Set"

(***************************************************************************)
(* Db (db.rs).  The keystore (State, 14-18) is a HashMap<Bytes, BytesMut>: *)
(* a function from the keys it holds to their values.                      *)
(***************************************************************************)
\* HashMap::new
EmptyKeystore == <<>>

\* mutant: the record a key has is kept
InsertIfAbsent(ks, key, value) ==
    [k \in DOMAIN ks \cup {key} |-> IF k \in DOMAIN ks THEN ks[k] ELSE value]

\* HashMap::insert: the value replaces the one the key had
Insert(ks, key, value) ==
    [k \in DOMAIN ks \cup {key} |-> IF k = key THEN value ELSE ks[k]]

\* HashMap::get(..).map(|b| b.clone())
Lookup(ks, key) == IF key \in DOMAIN ks THEN Some(ks[key]) ELSE None

\* mutant: lock returns while another guard is alive
CanLockAlways(holder) == TRUE

\* Mutex::lock (db.rs 39 and 47) returns once no other guard is alive;
\* holder is the task that has the guard, 0 when there is none
CanLock(holder) == holder = 0

\* "PONG" and "OK"
Pong == <<80, 79, 78, 71>>
Ok == <<79, 75>>

\* Db::apply (32-54): the reply
ApplyReply(ks, cmd) ==
    CASE cmd.op = "Ping" -> FBulk(Some(Pong))
      [] cmd.op = "Echo" -> FBulk(Some(cmd.value))
      [] cmd.op = "Set" -> FBulk(Some(Ok))
      [] cmd.op = "Get" -> FBulk(Lookup(ks, cmd.key))

\* mutant: every command inserts
ApplyStateAlwaysInserts(ks, cmd) == Insert(ks, cmd.key, cmd.value)

\* Db::apply (32-54): the keystore it leaves
ApplyState(ks, cmd) ==
    IF cmd.op = "Set" THEN Insert(ks, cmd.key, cmd.value) ELSE ks

(***************************************************************************)
(* State.                                                                  *)
(***************************************************************************)
VARIABLES
    \* Connection (connection.rs 21-25) and the stream it wraps: stream_in is
    \* the sequence of chunks the coming stream reads deliver, one chunk a
    \* read; stream_end is what every stream read returns after the last
    \* chunk: "eof" for 0 bytes read, "error" for an I/O error that persists;
    \* stream_out is what the stream has accepted from the connection
    read_buf, write_buf, stream_in, stream_end, stream_out,
    \* read_frame in progress: its position, its locals, and the result it
    \* returned last
    rpc, array_stack, prefix, cursor, line, size, rres,
    \* of the read_frame call in progress: the bytes it has taken out of
    \* read_buf, and whether a stream read of it met end-of-stream
    consumed, eof_hit,
    \* the codec harness (the tests of connection.rs): the frames written,
    \* who writes them (write_frame, or a RESP peer), the bytes written for
    \* each, how the bytes reach the reader, the results read back
    hpc, frames, writer, sent, cuts, trunc, results,
    \* the connection task of main: its position in the loop, the frame and
    \* the command it holds, what try_into returned for the frame, what the
    \* client sends; and of its history: the replies apply returned, the
    \* number of frames read_frame returned, the bytes read_frame took,
    \* the stream writes that failed, and the number of replies there were
    \* when read_frame first returned an error (-1 before)
    mpc, cur, mcmd, parsed, client, served, nframes, pos, wfails, served_at_err,
    \* Db: the keystore, the holder of its mutex (0: free), the clock
    keystore, mutex, now,
    \* the tasks that call Db::apply: their position, the command they hold
    \* the guard for; the reply apply returned last, the command it was for
    \* and the task that applied it; per key the Set applied last
    tpc, tcmd, dbreply, lastcmd, lastby, lastset

connVars == <<read_buf, write_buf, stream_in, stream_end, stream_out>>
decVars == <<rpc, array_stack, prefix, cursor, line, size, rres, consumed, eof_hit>>
harnessVars == <<hpc, frames, writer, sent, cuts, trunc, results>>
serverVars ==
    <<mpc, cur, mcmd, parsed, client, served, nframes, pos, wfails,
      served_at_err>>
dbVars == <<keystore, mutex, now>>
taskVars == <<tpc, tcmd, dbreply, lastcmd, lastby, lastset>>
\* what read_frame and write_frame leave alone
callerVars == <<harnessVars, serverVars, dbVars, taskVars>>
vars == <<connVars, decVars, harnessVars, serverVars, dbVars, taskVars>>

(***************************************************************************)
(* Results of read_frame: Ok(Some(frame)), Ok(None), Err(ReadError), or    *)
(* the panic that unwinds the calling task.                                *)
(***************************************************************************)
OkSome(frame) == [kind |-> "Some", val |-> frame]
OkNone == [kind |-> "None", val |-> <<>>]
Err(e) == [kind |-> "Err", val |-> e]
Panic == [kind |-> "Panic", val |-> <<>>]
NoResult == [kind |-> "Pending", val |-> <<>>]

\* ReadError::IoError(UnexpectedEof), what must_fill_buf makes of a stream
\* read of 0 bytes
UnexpectedEof == "IoError(UnexpectedEof)"
\* the kind of an I/O error of the stream that is no end-of-stream
ConnectionReset == "IoError(ConnectionReset)"

(***************************************************************************)
(* Connection::read_frame (connection.rs 83-141), one action for each      *)
(* stretch of it between two stream reads.                                 *)
(***************************************************************************)
\* the call: a fresh array_stack
CallReadFrame ==
    /\ rpc = "idle"
    /\ rpc' = "fold"
    /\ array_stack' = <<>>
    /\ rres' = NoResult
    /\ consumed' = 0
    /\ eof_hit' = FALSE
    /\ UNCHANGED <<prefix, cursor, line, size>>

\* a return, which drops the locals
Return(res) ==
    /\ rpc' = "ret"
    /\ rres' = res
    /\ array_stack' = <<>>
    /\ prefix' = 0
    /\ cursor' = 0
    /\ line' = <<>>
    /\ size' = 0

\* the while-let of lines 88-98: completed arrays are folded into the one
\* below; done when the last one was popped off the stack
\* mutant: one completed array is folded, the one below it is not looked at
FoldCompletedOnce(stack) ==
    IF stack # <<>> /\ Len(Last(stack).arr) = Last(stack).cap
    THEN LET frame == FArray(Some(Last(stack).arr))
             below == Front(stack)
         IN  IF Len(below) = 0 THEN [done |-> TRUE, frame |-> frame, stack |-> <<>>]
             ELSE [done |-> FALSE, frame |-> FNull,
                   stack |-> [below EXCEPT ![Len(below)].arr = Append(@, frame)]]
    ELSE [done |-> FALSE, frame |-> FNull, stack |-> stack]

RECURSIVE FoldCompleted(_)
FoldCompleted(stack) ==
    IF stack # <<>> /\ Len(Last(stack).arr) = Last(stack).cap
    THEN LET frame == FArray(Some(Last(stack).arr))
             below == Front(stack)
         IN  IF Len(below) = 0 THEN [done |-> TRUE, frame |-> frame, stack |-> <<>>]
             ELSE FoldCompleted(
                    [below EXCEPT ![Len(below)].arr = Append(@, frame)])
    ELSE [done |-> FALSE, frame |-> FNull, stack |-> stack]

RF_Fold ==
    /\ rpc = "fold"
    /\ LET f == FoldCompleted(array_stack)
       IN  IF f.done
           THEN Return(OkSome(f.frame)) /\ UNCHANGED <<consumed, eof_hit>>
           ELSE /\ rpc' = "prefix"
                /\ array_stack' = f.stack
                /\ UNCHANGED <<prefix, cursor, line, size, rres, consumed, eof_hit>>
    /\ UNCHANGED <<connVars, callerVars>>

\* lines 135-139: a produced frame goes into the array in progress, or is
\* the result
Produce(frame) ==
    IF array_stack # <<>>
    THEN /\ array_stack' =
                [array_stack EXCEPT ![Len(array_stack)].arr = Append(@, frame)]
         /\ rpc' = "fold"
         /\ UNCHANGED <<prefix, cursor, line, size, rres>>
    ELSE Return(OkSome(frame))

\* mutant: end-of-stream at the prefix byte is Ok(None) with an array in
\* progress too
EofAtPrefixAlwaysNone(stack) == OkNone

\* line 101: end-of-stream at the prefix byte is Ok(None) when no array is
\* in progress
EofAtPrefix(stack) == IF stack = <<>> THEN OkNone ELSE Err(UnexpectedEof)

\* must_fill_buf (183-188) when the stream has no chunk left: UnexpectedEof
\* for 0 bytes read, else the error of the stream read
MustFillBufError ==
    IF stream_end = "eof" THEN UnexpectedEof ELSE ConnectionReset

\* read_u8 (213-218) and the match of lines 100-103
RF_ReadU8 ==
    /\ rpc = "prefix"
    /\ UNCHANGED <<write_buf, stream_end, stream_out, callerVars>>
    /\ IF read_buf = <<>> /\ stream_in = <<>>
       THEN \* must_fill_buf read 0 bytes, or the stream read failed
            /\ eof_hit' = (stream_end = "eof")
            /\ Return(IF stream_end = "eof" THEN EofAtPrefix(array_stack)
                      ELSE Err(MustFillBufError))
            /\ UNCHANGED <<read_buf, stream_in, consumed>>
       ELSE LET filled == IF read_buf = <<>> THEN Head(stream_in) ELSE read_buf
                byte == Head(filled)
            IN  /\ read_buf' = Tail(filled)
                /\ stream_in' = IF read_buf = <<>> THEN Tail(stream_in) ELSE stream_in
                /\ consumed' = consumed + 1
                /\ eof_hit' = eof_hit
                /\ IF byte \in PrefixBytes
                   THEN /\ rpc' = "line"
                        /\ prefix' = byte
                        /\ cursor' = 0
                        /\ UNCHANGED <<array_stack, line, size, rres>>
                   ELSE Return(Err("InvalidPrefix"))

\* position(|c| *c == LF) over read_buf[cursor..]: the index of the first LF,
\* counted from cursor; -1 for None
LfPosition(buf, from) ==
    IF \E i \in (from + 1)..Len(buf) : buf[i] = LF
    THEN (CHOOSE i \in (from + 1)..Len(buf) :
             buf[i] = LF /\ \A j \in (from + 1)..(i - 1) : buf[j] # LF) - (from + 1)
    ELSE -1

\* read_line (191-202), one turn of its loop
RF_ReadLine ==
    /\ rpc = "line"
    /\ UNCHANGED <<write_buf, stream_end, stream_out, callerVars>>
    /\ LET terminal == LfPosition(read_buf, cursor)
       IN  IF terminal >= 0
           THEN \* cursor = terminal; split_to(cursor + 1)
                /\ line' = SplitTo(read_buf, terminal + 1)
                /\ read_buf' = Rest(read_buf, terminal + 1)
                /\ consumed' = consumed + terminal + 1
                /\ cursor' = terminal
                /\ rpc' = "header"
                /\ UNCHANGED <<stream_in, array_stack, prefix, size, rres, eof_hit>>
           ELSE IF stream_in = <<>>
           THEN /\ eof_hit' = (stream_end = "eof")
                /\ Return(Err(MustFillBufError))
                /\ UNCHANGED <<read_buf, stream_in, consumed>>
           ELSE /\ cursor' = Len(read_buf)
                /\ read_buf' = read_buf \o Head(stream_in)
                /\ stream_in' = Tail(stream_in)
                /\ UNCHANGED <<rpc, array_stack, prefix, line, size, rres,
                               consumed, eof_hit>>

\* lines 106-133: the terminator of the header line, then the frame its
\* prefix names
RF_Header ==
    /\ rpc = "header"
    /\ UNCHANGED <<connVars, consumed, eof_hit, callerVars>>
    /\ IF Len(line) < 2
       THEN \* payload.len() - 2 is below 0: split_off is out of bounds
            Return(Panic)
       ELSE IF Rest(line, Len(line) - 2) # CRLF
       THEN Return(Err("MissingTerminator"))
       ELSE LET payload == SplitTo(line, Len(line) - 2)
                number == ParseUsize(payload)
            IN  CASE prefix = ArrayPrefix ->
                       IF ~Utf8Valid(payload) THEN Return(Err("Utf8Error"))
                       ELSE IF number = None THEN Return(Err("ParseIntError"))
                       ELSE IF number[1] # 0
                       THEN /\ array_stack' =
                                   Append(array_stack, [arr |-> <<>>, cap |-> number[1]])
                            /\ rpc' = "fold"
                            /\ UNCHANGED <<prefix, cursor, line, size, rres>>
                       ELSE Produce(FArray(Some(<<>>)))
                  [] prefix = BooleanPrefix ->
                       IF BoolTryFrom(payload) = None THEN Return(Err("InvalidBool"))
                       ELSE Produce(FBoolean(BoolTryFrom(payload)[1]))
                  [] prefix = BulkPrefix ->
                       IF ~Utf8Valid(payload) THEN Return(Err("Utf8Error"))
                       ELSE IF number = None THEN Return(Err("ParseIntError"))
                       ELSE /\ size' = number[1] + 2
                            /\ rpc' = "bulk"
                            /\ UNCHANGED <<array_stack, prefix, cursor, line, rres>>
                  [] prefix = ErrorPrefix -> Produce(FError(payload))
                  [] prefix = IntegerPrefix ->
                       IF ~Utf8Valid(payload) THEN Return(Err("Utf8Error"))
                       ELSE IF ParseI64(payload) = None THEN Return(Err("ParseIntError"))
                       ELSE Produce(FInteger(ParseI64(payload)[1]))
                  [] prefix = NullPrefix -> Produce(FNull)
                  [] prefix = StringPrefix -> Produce(FString(payload))

\* read_exact (205-210), one turn of its loop, and lines 124-127
RF_ReadExact ==
    /\ rpc = "bulk"
    /\ UNCHANGED <<write_buf, stream_end, stream_out, callerVars>>
    /\ IF Len(read_buf) < size
       THEN IF stream_in = <<>>
            THEN /\ eof_hit' = (stream_end = "eof")
                 /\ Return(Err(MustFillBufError))
                 /\ UNCHANGED <<read_buf, stream_in, consumed>>
            ELSE /\ read_buf' = read_buf \o Head(stream_in)
                 /\ stream_in' = Tail(stream_in)
                 /\ UNCHANGED <<decVars>>
       ELSE LET data == SplitTo(read_buf, size)
            IN  /\ read_buf' = Rest(read_buf, size)
                /\ consumed' = consumed + size
                /\ UNCHANGED <<stream_in, eof_hit>>
                /\ IF Rest(data, size - 2) # CRLF
                   THEN Return(Err("MissingTerminator"))
                   ELSE Produce(FBulk(Some(SplitTo(data, size - 2))))

(***************************************************************************)
(* Connection::write_frame (147-180): the frame is serialized behind what  *)
(* write_buf holds, then write_all_buf hands write_buf to the stream, which*)
(* accepts the first `accepted` bytes of it; the rest stays in write_buf   *)
(* (all of it is accepted unless the stream write fails).                  *)
(***************************************************************************)
WriteFrame(frame, accepted) ==
    LET buf == Serialize(write_buf, frame)
    IN  /\ stream_out' = stream_out \o SplitTo(buf, accepted)
        /\ write_buf' = Rest(buf, accepted)

(***************************************************************************)
(* The frames of the data model that the codec harness writes and reads.   *)
(***************************************************************************)
\* "", "a", "ab"
StrPayloads == {<<>>, <<97>>, <<97, 98>>}
IntVals == {-42, -1, 0, 7, 42}
\* any bytes: "", "a", CR, LF, CR LF, "a" LF, 0xFF, "10"
BulkPayloads ==
    {<<>>, <<97>>, <<CR>>, <<LF>>, <<CR, LF>>, <<97, LF>>, <<255>>, <<49, 48>>}

Leaves ==
    {FString(b) : b \in StrPayloads} \cup {FError(b) : b \in StrPayloads}
    \cup {FInteger(i) : i \in IntVals}
    \cup {FBulk(Some(b)) : b \in BulkPayloads} \cup {FBulk(None)}
    \cup {FNull, FBoolean(TRUE), FBoolean(FALSE)}

SeqsUpTo(S, n) == UNION {[1..k -> S] : k \in 1..n}

\* arrays of leaves: null, empty, and up to MaxWidth elements
Elems0 == {FString(<<97>>), FBulk(Some(<<98>>)), FInteger(7)}
Arrays1 ==
    {FArray(None), FArray(Some(<<>>))}
    \cup {FArray(Some(s)) : s \in SeqsUpTo(Elems0, MaxWidth)}

\* arrays of arrays
Elems1 ==
    {FArray(Some(<<>>)), FArray(None), FNull,
     FArray(Some(<<FString(<<97>>)>>)),
     FArray(Some(<<FArray(Some(<<>>)), FArray(Some(<<>>))>>))}
Arrays2 == {FArray(Some(s)) : s \in SeqsUpTo(Elems1, MaxWidth)}

Frames == Leaves \cup Arrays1 \cup Arrays2

\* the frames of the streams that carry several
MultiFrames ==
    {FString(<<97>>), FBulk(Some(<<LF>>)), FBulk(None), FInteger(-1),
     FArray(Some(<<FNull>>))}

FrameSeqs ==
    {<<f>> : f \in Frames}
    \cup UNION {[1..k -> MultiFrames] : k \in 2..MaxFrames}

\* the null Bulk and the null Array, alone or inside an array
RECURSIVE HasNull(_)
HasNull(frame) ==
    CASE frame.tag = "Bulk" -> frame.val = None
      [] frame.tag = "Array" ->
            \/ frame.val = None
            \/ \E i \in 1..Len(PayloadOf(frame.val)) : HasNull(frame.val[1][i])
      [] OTHER -> FALSE

(***************************************************************************)
(* The stream between the writer and the reader of the harness.            *)
(***************************************************************************)
Min(S) == CHOOSE m \in S : \A o \in S : m <= o

\* bytes cut into the chunks that end at the positions of cutset
RECURSIVE ChunksFrom(_, _, _)
ChunksFrom(bytes, cutset, start) ==
    IF start > Len(bytes) THEN <<>>
    ELSE LET end == Min({c \in cutset : c >= start} \cup {Len(bytes)})
         IN  <<SubSeq(bytes, start, end)>> \o ChunksFrom(bytes, cutset, end + 1)

Chunks(bytes, cutset) == ChunksFrom(bytes, cutset, 1)

\* the positions in the stream where the bytes of a frame end
RECURSIVE Boundaries(_)
Boundaries(encodings) ==
    IF encodings = <<>> THEN {}
    ELSE LET before == Boundaries(Front(encodings))
             start == IF before = {} THEN 0
                      ELSE CHOOSE m \in before : \A o \in before : o <= m
         IN  before \cup {start + Len(Last(encodings))}

\* how n bytes reach the reader: in one read, in two reads split anywhere,
\* one read a frame, or one byte a read
CutChoices(n, encodings) ==
    {{}} \cup {{i} : i \in 1..(n - 1)} \cup {1..(n - 1)}
    \cup {Boundaries(encodings) \cap 1..(n - 1)}

(***************************************************************************)
(* The codec harness, after the tests of connection.rs (266-350): write    *)
(* the frames to a stream, hand the bytes (or a truncation of them) to a   *)
(* new Connection, call read_frame until it returns something else than a  *)
(* frame.  A result is logged with the bytes its call took.                *)
(***************************************************************************)
HWrite ==
    /\ hpc = "write"
    /\ writer = "write_frame"
    /\ LET frame == frames[Len(sent) + 1]
       IN  /\ WriteFrame(frame, Len(Serialize(write_buf, frame)))
           /\ sent' = Append(sent, Serialize(write_buf, frame))
    /\ hpc' = IF Len(sent) + 1 = Len(frames) THEN "deliver" ELSE "write"
    /\ UNCHANGED <<read_buf, stream_in, stream_end, decVars, frames, writer, cuts, trunc,
                   results, serverVars, dbVars, taskVars>>

\* the frames come from a RESP peer instead
HPeerWrite ==
    /\ hpc = "write"
    /\ writer = "peer"
    /\ LET frame == frames[Len(sent) + 1]
       IN  /\ stream_out' = stream_out \o RespEncode(frame)
           /\ sent' = Append(sent, RespEncode(frame))
    /\ hpc' = IF Len(sent) + 1 = Len(frames) THEN "deliver" ELSE "write"
    /\ UNCHANGED <<read_buf, write_buf, stream_in, stream_end, decVars, frames, writer, cuts,
                   trunc, results, serverVars, dbVars, taskVars>>

HDeliver ==
    /\ hpc = "deliver"
    /\ \E t \in 0..Len(stream_out) :
         \E c \in CutChoices(t, sent) :
            /\ t < Len(stream_out) => c \in {{}, 1..(t - 1)}
            /\ trunc' = t
            /\ cuts' = c
            /\ stream_in' = Chunks(SplitTo(stream_out, t), c)
    /\ hpc' = "read"
    /\ UNCHANGED <<read_buf, write_buf, stream_end, stream_out, decVars, frames,
                   writer, sent, results, serverVars, dbVars, taskVars>>

HCall ==
    /\ hpc = "read"
    /\ CallReadFrame
    /\ UNCHANGED <<connVars, callerVars>>

HResult ==
    /\ hpc = "read"
    /\ rpc = "ret"
    /\ results' = Append(results, [kind |-> rres.kind, val |-> rres.val, n |-> consumed])
    /\ rpc' = "idle"
    /\ hpc' = IF rres.kind = "Some" THEN "read" ELSE "done"
    /\ UNCHANGED <<connVars, array_stack, prefix, cursor, line, size, rres,
                   consumed, eof_hit, frames, writer, sent, cuts, trunc,
                   serverVars, dbVars, taskVars>>

(***************************************************************************)
(* What a client sends: requests that parse to a command, well-formed      *)
(* frames that Command::try_from rejects, and bytes that are no frame.     *)
(***************************************************************************)
BulkArray(args) == FArray(Some([i \in 1..Len(args) |-> FBulk(Some(args[i]))]))

\* PING; SET k v; GET k
CommandFrames ==
    {BulkArray(<< <<80, 73, 78, 71>> >>),
     BulkArray(<< <<83, 69, 84>>, <<107>>, <<118>> >>),
     BulkArray(<< <<71, 69, 84>>, <<107>> >>)}

\* +a (NotAnArray); foo (UnknownCommand); get (MissingArgument);
\* [7] (WrongType); set k v zz (UnexpectedArgument)
RejectedFrames ==
    {FString(<<97>>),
     BulkArray(<< <<102, 111, 111>> >>),
     BulkArray(<< NameGet >>),
     FArray(Some(<<FInteger(7)>>)),
     BulkArray(<< NameSet, <<107>>, <<118>>, <<122, 122>> >>)}

\* "!\r\n" (InvalidPrefix), "#x\r\n" (InvalidBool), "+a\n" (MissingTerminator),
\* ":x\r\n" (ParseIntError), "*\xFF\r\n" (Utf8Error), "$5\r\nab" (cut short)
Malformed ==
    {<<33, CR, LF>>, <<BooleanPrefix, 120, CR, LF>>, <<StringPrefix, 97, LF>>,
     <<IntegerPrefix, 120, CR, LF>>, <<ArrayPrefix, 255, CR, LF>>,
     <<BulkPrefix, 53, CR, LF, 97, 98>>}

ClientItems ==
    {[bytes |-> RespEncode(f), frame |-> Some(f)] :
        f \in CommandFrames \cup RejectedFrames}
    \cup {[bytes |-> b, frame |-> None] : b \in Malformed}

ClientStreams == UNION {[1..k -> ClientItems] : k \in 1..MaxRequests}

RECURSIVE Concat(_)
Concat(seqs) == IF seqs = <<>> THEN <<>> ELSE Head(seqs) \o Concat(Tail(seqs))

ClientBytes(items) == Concat([i \in 1..Len(items) |-> items[i].bytes])

\* the positions in the client's bytes where its items end
ItemEnds(items) ==
    {Len(ClientBytes(SubSeq(items, 1, i))) : i \in 1..Len(items)}

(***************************************************************************)
(* The connection task of main (main.rs 14-44).                            *)
(***************************************************************************)
\* line 17: the call of read_frame
MCall ==
    /\ mpc = "read"
    /\ CallReadFrame
    /\ UNCHANGED <<connVars, callerVars>>

\* lines 17-25: Some(frame) goes on to the command, None leaves the loop, an
\* error is printed and the loop goes on; a panic in read_frame unwinds the
\* task
AfterReadFrame(res) ==
    CASE res.kind = "Some" -> "dispatch"
      [] res.kind = "None" -> "exited"
      [] res.kind = "Err" -> "read"
      [] res.kind = "Panic" -> "panicked"

MResult ==
    /\ mpc = "read"
    /\ rpc = "ret"
    /\ rpc' = "idle"
    /\ mpc' = AfterReadFrame(rres)
    /\ cur' = IF rres.kind = "Some" THEN rres.val ELSE cur
    /\ nframes' = IF rres.kind = "Some" THEN nframes + 1 ELSE nframes
    /\ pos' = pos + consumed
    /\ served_at_err' = IF rres.kind = "Err" /\ served_at_err < 0
                        THEN Len(served) ELSE served_at_err
    /\ UNCHANGED <<connVars, array_stack, prefix, cursor, line, size, rres,
                   consumed, eof_hit, mcmd, parsed, client, served, wfails,
                   harnessVars, dbVars, taskVars>>

\* mutant: a frame that is no command falls through to line 34
AfterTryFromFallsThrough(res) == "apply"

\* lines 26-33: a command goes on to line 34; for a frame that is no
\* command the error is printed and the loop goes on
AfterTryFrom(res) == IF res.ok THEN "apply" ELSE "read"

MTryFrom ==
    /\ mpc = "dispatch"
    /\ parsed' = TryFrom(cur, now)
    /\ mpc' = AfterTryFrom(parsed')
    /\ mcmd' = parsed'.cmd
    /\ UNCHANGED <<connVars, decVars, cur, client, served, nframes, pos, wfails,
                   served_at_err, harnessVars, dbVars, taskVars>>

\* line 34: the command is applied and its reply written; the result of
\* write_frame is dropped.  A stream write that fails has accepted nothing,
\* or all but the last byte.
MApply ==
    /\ mpc = "apply"
    /\ CanLock(mutex)
    /\ LET reply == ApplyReply(keystore, mcmd)
           size_out == Len(Serialize(write_buf, reply))
       IN  /\ keystore' = ApplyState(keystore, mcmd)
           /\ served' = Append(served, reply)
           /\ \E accepted \in {0, size_out - 1, size_out} :
                /\ accepted < size_out => wfails < MaxWriteFail
                /\ wfails' = IF accepted < size_out THEN wfails + 1 ELSE wfails
                /\ WriteFrame(reply, accepted)
    /\ mpc' = "read"
    /\ UNCHANGED <<read_buf, stream_in, stream_end, decVars, cur, mcmd, parsed, client,
                   nframes, pos, served_at_err, mutex, now, harnessVars,
                   taskVars>>

(***************************************************************************)
(* Tasks that share a Db through cloned handles (db.rs 56-63) and call     *)
(* Db::apply.                                                              *)
(***************************************************************************)
Tasks == 1..NTasks

\* "k", "l" and "v", "w"
Keys == {<<107>>, <<108>>}
Values == {<<118>>, <<119>>}

\* the commands a task applies; the deadline of a Set is the moment the
\* command is made plus its duration (command.rs 91-96), here PX 0
Commands(t_now) ==
    {Ping} \cup {Echo(v) : v \in Values} \cup {Get(k) : k \in Keys}
    \cup {Set(k, v, e) : k \in Keys, v \in Values, e \in {None, Some(t_now)}}

\* Ping and Echo: no lock is taken (lines 34-35)
TPure(t) ==
    /\ tpc[t] = "idle"
    /\ \E cmd \in {c \in Commands(now) : c.op \in {"Ping", "Echo"}} :
         /\ dbreply' = ApplyReply(keystore, cmd)
         /\ lastcmd' = cmd
    /\ lastby' = t
    /\ UNCHANGED <<tpc, tcmd, lastset, dbVars, connVars, decVars, harnessVars,
                   serverVars>>

\* Set and Get: self.state.lock().unwrap() (lines 37-40 and 46-48)
TLock(t) ==
    /\ tpc[t] = "idle"
    /\ CanLock(mutex)
    /\ \E cmd \in {c \in Commands(now) : c.op \in {"Set", "Get"}} :
         tcmd' = [tcmd EXCEPT ![t] = cmd]
    /\ mutex' = t
    /\ tpc' = [tpc EXCEPT ![t] = "locked"]
    /\ UNCHANGED <<keystore, now, dbreply, lastcmd, lastby, lastset,
                   connVars, decVars, harnessVars, serverVars>>

\* insert or get under the guard, which is dropped at the end of the
\* statement (lines 41-43 and 49-51)
TAccess(t) ==
    /\ tpc[t] = "locked"
    /\ keystore' = ApplyState(keystore, tcmd[t])
    /\ dbreply' = ApplyReply(keystore, tcmd[t])
    /\ lastset' = IF tcmd[t].op = "Set"
                  THEN [lastset EXCEPT ![tcmd[t].key] =
                          Some([value |-> tcmd[t].value,
                                expires |-> tcmd[t].expires, by |-> t])]
                  ELSE lastset
    /\ lastcmd' = tcmd[t]
    /\ lastby' = t
    /\ mutex' = IF mutex = t THEN 0 ELSE mutex
    /\ tpc' = [tpc EXCEPT ![t] = "idle"]
    /\ tcmd' = [tcmd EXCEPT ![t] = Ping]
    /\ UNCHANGED <<now, connVars, decVars, harnessVars, serverVars>>

\* the monotonic clock moves on
Tick ==
    /\ now < MaxNow
    /\ now' = now + 1
    /\ UNCHANGED <<keystore, mutex, taskVars, connVars, decVars, harnessVars,
                   serverVars>>

(***************************************************************************)
(* Initial states and specifications.                                      *)
(***************************************************************************)
\* Connection::new, and no read_frame under way
InitConnection ==
    /\ read_buf = <<>>
    /\ write_buf = <<>>
    /\ stream_out = <<>>
    /\ rpc = "idle"
    /\ array_stack = <<>>
    /\ prefix = 0
    /\ cursor = 0
    /\ line = <<>>
    /\ size = 0
    /\ rres = NoResult
    /\ consumed = 0
    /\ eof_hit = FALSE

\* Db::new, the clock at 0, tasks idle
InitDb ==
    /\ keystore = EmptyKeystore
    /\ mutex = 0
    /\ now = 0
    /\ tpc = [t \in Tasks |-> "idle"]
    /\ tcmd = [t \in Tasks |-> Ping]
    /\ dbreply = FNull
    /\ lastcmd = Ping
    /\ lastby = 0
    /\ lastset = [k \in Keys |-> None]

NoHarness ==
    /\ hpc = "off"
    /\ frames = <<>>
    /\ writer = "write_frame"
    /\ sent = <<>>
    /\ cuts = {}
    /\ trunc = 0
    /\ results = <<>>

NoServer ==
    /\ mpc = "off"
    /\ cur = FNull
    /\ mcmd = Ping
    /\ parsed = NoParse
    /\ client = <<>>
    /\ served = <<>>
    /\ nframes = 0
    /\ pos = 0
    /\ wfails = 0
    /\ served_at_err = -1

\* the codec between a writer and a reader
Init ==
    /\ InitConnection
    /\ InitDb
    /\ NoServer
    /\ stream_in = <<>>
    /\ stream_end = "eof"
    /\ hpc = "write"
    /\ frames \in FrameSeqs
    /\ writer \in IF \E i \in 1..Len(frames) : HasNull(frames[i])
                 THEN {"write_frame", "peer"} ELSE {"write_frame"}
    /\ sent = <<>>
    /\ cuts = {}
    /\ trunc = 0
    /\ results = <<>>

Next ==
    \/ HWrite
    \/ HPeerWrite
    \/ HDeliver
    \/ HCall
    \/ HResult
    \/ RF_Fold
    \/ RF_ReadU8
    \/ RF_ReadLine
    \/ RF_Header
    \/ RF_ReadExact

Spec == Init /\ [][Next]_vars

\* one connection task and its client, whose bytes arrive in one read or
\* one request a read
InitServer ==
    /\ InitConnection
    /\ InitDb
    /\ NoHarness
    /\ client \in ClientStreams
    /\ \E c \in {{}, ItemEnds(client)} : stream_in = Chunks(ClientBytes(client), c)
    /\ stream_end \in {"eof", "error"}
    /\ mpc = "read"
    /\ cur = FNull
    /\ mcmd = Ping
    /\ parsed = NoParse
    /\ served = <<>>
    /\ nframes = 0
    /\ pos = 0
    /\ wfails = 0
    /\ served_at_err = -1

NextServer ==
    \/ MCall
    \/ MResult
    \/ MTryFrom
    \/ MApply
    \/ RF_Fold
    \/ RF_ReadU8
    \/ RF_ReadLine
    \/ RF_Header
    \/ RF_ReadExact

SpecServer == InitServer /\ [][NextServer]_vars

\* the same under the scheduler: a task that can take a step does take one
\* (every await of the loop completes: a stream read returns bytes, 0 bytes
\* or an error)
SpecServerLive == InitServer /\ [][NextServer]_vars /\ WF_vars(NextServer)

\* tasks on one Db
InitTasks ==
    /\ InitConnection
    /\ InitDb
    /\ NoHarness
    /\ NoServer
    /\ stream_in = <<>>
    /\ stream_end = "eof"

NextDb ==
    \/ \E t \in Tasks : TPure(t)
    \/ \E t \in Tasks : TLock(t)
    \/ \E t \in Tasks : TAccess(t)
    \/ Tick

SpecDb == InitTasks /\ [][NextDb]_vars

(***************************************************************************)
(* Command::try_from on its own, as the tests of command.rs (127-238) call *)
(* it: a frame is handed to try_from at some moment of the clock.          *)
(***************************************************************************)
\* command names as a client may send them: ping, pIng, PING (a String),
\* echo, ECHO, get, GeT, set, sEt, foo, the empty name; and frames in place
\* of a name that hold no bytes
NameFrames ==
    {FBulk(Some(<<112, 105, 110, 103>>)), FString(<<112, 73, 110, 103>>),
     FString(<<80, 73, 78, 71>>),
     FString(<<101, 99, 104, 111>>), FBulk(Some(<<69, 67, 72, 79>>)),
     FString(<<103, 101, 116>>), FBulk(Some(<<71, 101, 84>>)),
     FString(<<115, 101, 116>>), FBulk(Some(<<115, 69, 116>>)),
     FBulk(Some(<<102, 111, 111>>)), FBulk(Some(<<>>)),
     FInteger(7), FBulk(None), FNull}

\* arguments: "k" as a Bulk, "v" as a String, and frames that hold no bytes
ArgFrames == {FBulk(Some(<<107>>)), FString(<<118>>), FInteger(7), FBulk(None)}

\* option names: ex, PX, px as a String, zz, and a frame that holds no bytes
OptionNames ==
    {FBulk(Some(<<101, 120>>)), FBulk(Some(<<80, 88>>)), FString(<<112, 120>>),
     FBulk(Some(<<122, 122>>)), FInteger(7)}

\* the argument of an option: 0, 2, -1 as Integer frames; "10", "2", "-1"
\* and "x" as Bulks, the way a client sends a number
OptionArgs ==
    {FInteger(0), FInteger(2), FInteger(-1), FBulk(Some(<<49, 48>>)),
     FBulk(Some(<<50>>)), FBulk(Some(<<45, 49>>)), FBulk(Some(<<120>>))}

\* what follows the arguments: nothing, an option with or without its
\* argument, an option and one more element, two options
OptionTails ==
    {<<>>} \cup {<<o>> : o \in OptionNames}
    \cup {<<o, n>> : o \in OptionNames, n \in OptionArgs}
    \cup {<<o, FInteger(2), FBulk(Some(<<107>>))>> : o \in OptionNames}
    \cup {<<o, FInteger(2), p, FInteger(0)>> :
             o \in {FBulk(Some(<<101, 120>>))}, p \in OptionNames}

ArgTails == {<<>>} \cup SeqsUpTo(ArgFrames, MaxArgs)

\* the frames handed to try_from
CommandInputs ==
    {FArray(Some(<<c>> \o a \o o)) :
        c \in NameFrames, a \in ArgTails, o \in OptionTails}
    \cup {FArray(Some(<<>>)), FArray(None)} \cup Leaves

InitCommand ==
    /\ InitConnection
    /\ InitDb
    /\ NoHarness
    /\ stream_in = <<>>
    /\ stream_end = "eof"
    /\ mpc = "dispatch"
    /\ cur \in CommandInputs
    /\ mcmd = Ping
    /\ parsed = NoParse
    /\ client = <<>>
    /\ served = <<>>
    /\ nframes = 0
    /\ pos = 0
    /\ wfails = 0
    /\ served_at_err = -1

NextCommand ==
    \/ Tick
    \/ MTryFrom

SpecCommand == InitCommand /\ [][NextCommand]_vars

(***************************************************************************)
(* read_frame on bytes that no encoder wrote, as the read tests of         *)
(* connection.rs (266-301) hand them to a new Connection.                  *)
(***************************************************************************)
\* what stands between the prefix byte and the end of a header line: "",
\* "t", "f", "x", "tt", "a" CR "b", CR, "1", "0", "-1"
HeaderPayloads ==
    {<<>>, <<ByteT>>, <<ByteF>>, <<120>>, <<ByteT, ByteT>>, <<97, CR, 98>>, <<CR>>,
     <<49>>, <<48>>, <<MinusSign, 49>>}

\* how a header line ends: CR LF, or LF alone
LineEnds == {CRLF, <<LF>>}

HeaderLines ==
    {<<p>> \o h \o e : p \in PrefixBytes, h \in HeaderPayloads, e \in LineEnds}

\* what follows the header $1: "a" CR LF, "abc", "a" LF CR, "a" CR CR,
\* CR LF LF; and the header $0: CR LF, LF LF, "ab"
RawBulks ==
    {<<BulkPrefix, 49, CR, LF>> \o t :
        t \in {<<97, CR, LF>>, <<97, 98, 99>>, <<97, LF, CR>>, <<97, CR, CR>>,
               <<CR, LF, LF>>}}
    \cup {<<BulkPrefix, 48, CR, LF>> \o t : t \in {CRLF, <<LF, LF>>, <<97, 98>>}}

\* a header line as the one element of an array
RawArrays == {<<ArrayPrefix, 49, CR, LF>> \o l : l \in HeaderLines}

RawInputs == HeaderLines \cup RawBulks \cup RawArrays

\* the bytes are put on the stream as they are
HRawWrite ==
    /\ hpc = "write"
    /\ writer = "raw"
    /\ \E b \in RawInputs :
         /\ stream_out' = b
         /\ sent' = <<b>>
    /\ hpc' = "deliver"
    /\ UNCHANGED <<read_buf, write_buf, stream_in, stream_end, decVars, frames,
                   writer, cuts, trunc, results, serverVars, dbVars, taskVars>>

InitDecode ==
    /\ InitConnection
    /\ InitDb
    /\ NoServer
    /\ stream_in = <<>>
    /\ stream_end = "eof"
    /\ hpc = "write"
    /\ frames = <<>>
    /\ writer = "raw"
    /\ sent = <<>>
    /\ cuts = {}
    /\ trunc = 0
    /\ results = <<>>

NextDecode ==
    \/ HRawWrite
    \/ HDeliver
    \/ HCall
    \/ HResult
    \/ RF_Fold
    \/ RF_ReadU8
    \/ RF_ReadLine
    \/ RF_Header
    \/ RF_ReadExact

SpecDecode == InitDecode /\ [][NextDecode]_vars

(***************************************************************************)
(* The codec claims, checked under Spec.                                   *)
(***************************************************************************)
IsSome(result, frame) == result.kind = "Some" /\ result.val = frame

\* the whole of the written bytes reaches the reader
Untruncated == hpc \in {"read", "done"} /\ trunc = Len(stream_out)

\* C1: round trip.  For every frame f of the data model, null Bulk and null
\* Array included, read_frame on the bytes write_frame(f) produced, handed
\* over in one stream read, returns Some(f).
C1_RoundTrip ==
    (Untruncated /\ writer = "write_frame" /\ Len(frames) = 1 /\ cuts = {}
        /\ Len(results) >= 1)
        => IsSome(results[1], frames[1])

\* The round trip of C1 for the frames that hold no null Bulk and no null
\* Array.
RoundTripNonNull ==
    (Untruncated /\ Len(frames) = 1 /\ cuts = {} /\ Len(results) >= 1
        /\ ~HasNull(frames[1]))
        => IsSome(results[1], frames[1])

\* read_frame returns no null Bulk and no null Array, whatever it reads.
NeverReadsNull == rres.kind = "Some" => ~HasNull(rres.val)

\* C2: incremental decoding.  However the bytes of encode(f) are split over
\* two or more stream reads, read_frame returns Some(f), as it does when
\* they arrive in one read.  Stated for the frames that one read does bring
\* back (RoundTripNonNull), so that a violation is owed to the split alone.
C2_IncrementalDecoding ==
    (Untruncated /\ Len(frames) = 1 /\ Len(results) >= 1 /\ ~HasNull(frames[1]))
        => IsSome(results[1], frames[1])

\* what C3 expects of a stream that carries fs: Some(f) for each frame, each
\* call taking the bytes of its frame, then None
ExpectedResults(fs) ==
    [i \in 1..(Len(fs) + 1) |->
        IF i <= Len(fs)
        THEN [kind |-> "Some", val |-> fs[i], n |-> Len(sent[i])]
        ELSE [kind |-> "None", val |-> <<>>, n |-> 0]]

\* each stream read delivers whole frames
WholeFrameReads == cuts \subseteq Boundaries(sent)

\* C3: multi-frame stream.  The stream carries encode(f1) .. encode(fn) and
\* then ends; each stream read delivers one or more whole frames.  The
\* successive read_frame calls return Some(f1), .., Some(fn), None, each
\* call taking exactly the bytes of its frame.
C3_MultiFrameStream ==
    (hpc = "done" /\ Untruncated /\ WholeFrameReads)
        => results = ExpectedResults(frames)

\* C3 for the streams whose frames hold no null Bulk and no null Array.
MultiFrameStreamNonNull ==
    (hpc = "done" /\ Untruncated /\ WholeFrameReads
        /\ \A i \in 1..Len(frames) : ~HasNull(frames[i]))
        => results = ExpectedResults(frames)

\* C4: clean versus dirty end-of-stream.  When read_frame returns, it
\* returns None exactly when a stream read of this call met end-of-stream
\* before the call had taken a byte (the read buffer is then empty); when
\* end-of-stream is met after the call took a byte of a frame, or with an
\* array in progress, it returns the UnexpectedEof error.
C4_CleanVsDirtyEof ==
    rpc = "ret" =>
        /\ (rres.kind = "None") <=> (eof_hit /\ consumed = 0)
        /\ rres.kind = "None" => read_buf = <<>>
        /\ (eof_hit /\ consumed > 0)
              => (rres.kind = "Err" /\ rres.val = UnexpectedEof)

\* end-of-stream where the second element of an array should begin
C4_Witness ==
    /\ rpc = "ret"
    /\ frames = <<FArray(Some(<<FString(<<97>>), FInteger(7)>>))>>
    /\ eof_hit
    /\ consumed = 8
    /\ rres.kind = "Err"
    /\ rres.val = UnexpectedEof

\* the arrays of frame that are in progress when the first k bytes of its
\* encoding have been read: those whose header has been read and whose last
\* element has not been read to its end
RECURSIVE OpenArrays(_, _)
RECURSIVE OpenInElements(_, _)
OpenArrays(frame, k) ==
    IF frame.tag = "Array" /\ frame.val # None /\ frame.val[1] # <<>>
    THEN LET header == 1 + Len(IntToString(Len(frame.val[1]))) + 2
         IN  IF k < header \/ k >= Len(Encode(frame)) THEN 0
             ELSE 1 + OpenInElements(frame.val[1], k - header)
    ELSE 0
OpenInElements(elements, k) ==
    IF elements = <<>> THEN 0
    ELSE IF k < Len(Encode(Head(elements))) THEN OpenArrays(Head(elements), k)
    ELSE OpenInElements(Tail(elements), k - Len(Encode(Head(elements))))

\* the first call of read_frame on the encoding of one frame without nulls,
\* handed over in one stream read, is about to read a prefix byte
AtPrefixOfOneFrame ==
    /\ writer = "write_frame"
    /\ hpc = "read"
    /\ Len(frames) = 1
    /\ ~HasNull(frames[1])
    /\ cuts = {}
    /\ results = <<>>
    /\ rpc = "prefix"

\* C21: the stack of pending arrays.  Whenever a prefix byte is about to be
\* read, every entry of the stack holds fewer children than its intended
\* length, and the depth of the stack is the number of arrays in progress
\* at that point of the input (a header of length n >= 1 has pushed one
\* entry, an empty array none, completed entries have been folded); and an
\* array without nulls, nested or not, is read back as written and
\* re-encodes to the bytes it was read from.
C21_StackDiscipline ==
    /\ rpc = "prefix" =>
          \A i \in 1..Len(array_stack) :
             Len(array_stack[i].arr) < array_stack[i].cap
    /\ AtPrefixOfOneFrame =>
          Len(array_stack) = OpenArrays(frames[1], consumed)
    /\ (Untruncated /\ Len(frames) = 1 /\ cuts = {} /\ Len(results) >= 1
            /\ frames[1].tag = "Array" /\ ~HasNull(frames[1])) =>
          /\ IsSome(results[1], frames[1])
          /\ Encode(results[1].val) = sent[1]

\* *1 CR LF *2 CR LF *0 CR LF has been read: the array of one is pending with
\* no child, the array of two with one
C21_Witness ==
    /\ AtPrefixOfOneFrame
    /\ sent = << <<ArrayPrefix, 49, CR, LF, ArrayPrefix, 50, CR, LF,
                  ArrayPrefix, 48, CR, LF, ArrayPrefix, 48, CR, LF>> >>
    /\ consumed = 12
    /\ array_stack = <<[arr |-> <<>>, cap |-> 1],
                       [arr |-> <<FArray(Some(<<>>))>>, cap |-> 2]>>

\* the steps of C21: a header of length n >= 1 pushes one empty entry of
\* intended length n, every other header line leaves the depth or ends the
\* call
HeaderPushesOne ==
    [][(rpc = "header" /\ rpc' # "ret") =>
          IF prefix = ArrayPrefix /\ ParseUsize(SplitTo(line, Len(line) - 2)) # None
                /\ ParseUsize(SplitTo(line, Len(line) - 2))[1] >= 1
          THEN array_stack' =
                  Append(array_stack,
                         [arr |-> <<>>,
                          cap |-> ParseUsize(SplitTo(line, Len(line) - 2))[1]])
          ELSE Len(array_stack') = Len(array_stack)]_vars

\* the three nulls of the data model
NullValues == {FBulk(None), FArray(None), FNull}

\* C11: the three nulls on the wire.  write_frame writes $-1 CR LF for the
\* null Bulk, *-1 CR LF for the null Array and _ CR LF for Null; read_frame
\* turns these three encodings, received from a peer, into the null Bulk,
\* the null Array and Null; and what write_frame writes for the null Bulk
\* and the null Array differs from what it writes for the empty Bulk and
\* the empty Array.
C11_NullEncodings ==
    /\ \A i \in 1..Len(sent) :
          (writer = "write_frame" /\ frames[i] \in NullValues) =>
              /\ sent[i] = RespEncode(frames[i])
              /\ sent[i] # Encode(FBulk(Some(<<>>)))
              /\ sent[i] # Encode(FArray(Some(<<>>)))
    /\ (writer = "peer" /\ Untruncated /\ Len(frames) = 1 /\ Len(results) >= 1
            /\ frames[1] \in NullValues)
          => IsSome(results[1], frames[1])

\* C11 for the Null frame alone: written as _ CR LF, read back as Null.
NullFrameOnTheWire ==
    /\ \A i \in 1..Len(sent) :
          frames[i] = FNull => sent[i] = <<NullPrefix, CR, LF>>
    /\ (Untruncated /\ Len(frames) = 1 /\ Len(results) >= 1 /\ cuts = {}
            /\ frames[1] = FNull)
          => IsSome(results[1], FNull)

\* what the code does with the other two: both are written as the empty
\* payload, and their RESP encodings are refused as numbers
NullsAsInTheCode ==
    /\ \A i \in 1..Len(sent) :
          (writer = "write_frame" /\ frames[i] = FBulk(None)) =>
              sent[i] = Encode(FBulk(Some(<<>>)))
    /\ \A i \in 1..Len(sent) :
          (writer = "write_frame" /\ frames[i] = FArray(None)) =>
              sent[i] = Encode(FArray(Some(<<>>)))
    /\ (writer = "peer" /\ Untruncated /\ Len(frames) = 1 /\ Len(results) >= 1
            /\ cuts = {} /\ frames[1] \in {FBulk(None), FArray(None)})
          => (results[1].kind = "Err" /\ results[1].val = "ParseIntError")

(***************************************************************************)
(* The claims about the decoder on arbitrary bytes, checked under          *)
(* SpecDecode.  sent[1] is the input, results[1] what the first call of    *)
(* read_frame returned.                                                    *)
(***************************************************************************)
\* the whole input has reached the reader in one stream read, and the first
\* call of read_frame has returned
OneRead ==
    /\ writer = "raw"
    /\ Untruncated
    /\ cuts = {}
    /\ Len(results) >= 1

\* the position of the first LF of bytes, 0 when there is none
FirstLfAt(bytes) ==
    IF \E i \in 1..Len(bytes) : bytes[i] = LF
    THEN CHOOSE i \in 1..Len(bytes) :
            bytes[i] = LF /\ \A j \in 1..(i - 1) : bytes[j] # LF
    ELSE 0

\* bytes begin with a prefix byte and a header line that ends in CR LF
EndsInCrLf(bytes) ==
    /\ FirstLfAt(bytes) >= 3
    /\ bytes[FirstLfAt(bytes) - 1] = CR

\* the payload of that header line
HeaderPayload(bytes) == SubSeq(bytes, 2, FirstLfAt(bytes) - 2)

\* bytes begin with a prefix byte and a header line that ends in LF with no
\* CR before it: of at least minimum bytes, the LF counted
LfWithoutCr(bytes, minimum) ==
    /\ bytes # <<>>
    /\ bytes[1] \in PrefixBytes
    /\ FirstLfAt(bytes) >= 1 + minimum
    /\ (FirstLfAt(bytes) = 2 \/ bytes[FirstLfAt(bytes) - 1] # CR)

\* bytes are a Bulk with a header $n CR LF and n + 2 bytes or more behind
\* it, of which the last two of the first n + 2 are not CR LF
BulkWithoutCrLf(bytes) ==
    /\ bytes # <<>>
    /\ bytes[1] = BulkPrefix
    /\ EndsInCrLf(bytes)
    /\ ParseUsize(HeaderPayload(bytes)) # None
    /\ LET n == ParseUsize(HeaderPayload(bytes))[1]
           at == FirstLfAt(bytes)
       IN  /\ Len(bytes) >= at + n + 2
           /\ SubSeq(bytes, at + n + 1, at + n + 2) # CRLF

\* the header of an array of one element
ArrayOfOne == <<ArrayPrefix, 49, CR, LF>>

\* the input has the fault at top level, or in the one element of an array
AtTopOrNested(Fault(_), bytes) ==
    \/ Fault(bytes)
    \/ /\ Len(bytes) > 4
       /\ SplitTo(bytes, 4) = ArrayOfOne
       /\ Fault(Rest(bytes, 4))

IsMissingTerminator(result) ==
    result.kind = "Err" /\ result.val = "MissingTerminator"

\* C17: mandatory terminators.  A header line that ends in LF with no CR
\* before it, the line of the single byte LF included, makes read_frame
\* return MissingTerminator, for every prefix; so does a Bulk whose n payload
\* bytes are not followed by CR LF.
C17_MandatoryTerminators ==
    OneRead =>
       LET Fault(b) == LfWithoutCr(b, 1) \/ BulkWithoutCrLf(b)
       IN  AtTopOrNested(Fault, sent[1]) => IsMissingTerminator(results[1])

\* C17 but for the header line of the single byte LF.
MissingTerminatorOfLongerLines ==
    OneRead =>
       LET Fault(b) == LfWithoutCr(b, 2) \/ BulkWithoutCrLf(b)
       IN  AtTopOrNested(Fault, sent[1]) => IsMissingTerminator(results[1])

\* the header line of the single byte LF: read_frame panics
SingleLfPanics ==
    OneRead =>
       LET Fault(b) == LfWithoutCr(b, 1) /\ FirstLfAt(b) = 2
       IN  AtTopOrNested(Fault, sent[1]) => results[1].kind = "Panic"

\* C22: read_frame is total.  Whatever the input and however the stream
\* reads chunk it, a call of read_frame ends in Some(frame), None or a
\* ReadError; it never panics.
C22_ReadFrameTotal ==
    /\ rres.kind # "Panic"
    /\ rpc = "ret" => rres.kind \in {"Some", "None", "Err"}

\* a panic of read_frame comes from a header line of fewer than two bytes:
\* the line of the single byte LF, or a line that read_line cut short after
\* a later stream read completed it
PanicsOnlyOnShortLines ==
    [][(rres.kind # "Panic" /\ rres'.kind = "Panic") =>
          (rpc = "header" /\ Len(line) < 2)]_vars

\* a header line completed by a later stream read: read_line returns the
\* first bytes of the buffer, as many as the LF is far from where the search
\* resumed, and not the line
LineCutShort ==
    [][(rpc = "line" /\ rpc' = "header" /\ cursor > 0) =>
          /\ Len(line') = LfPosition(read_buf, cursor) + 1
          /\ Len(line') < cursor + LfPosition(read_buf, cursor) + 1]_vars

\* C18: Boolean decoding.  A # frame decodes to Boolean(true) exactly when
\* its header payload is the byte t, to Boolean(false) exactly when it is f;
\* every other payload makes read_frame return InvalidBool.
C18_BooleanDecoding ==
    (OneRead /\ sent[1][1] = BooleanPrefix /\ EndsInCrLf(sent[1])) =>
       LET h == HeaderPayload(sent[1])
       IN  /\ IsSome(results[1], FBoolean(TRUE)) <=> h = <<ByteT>>
           /\ IsSome(results[1], FBoolean(FALSE)) <=> h = <<ByteF>>
           /\ h \notin {<<ByteT>>, <<ByteF>>} =>
                 (results[1].kind = "Err" /\ results[1].val = "InvalidBool")

\* #tt has been refused
C18_Witness ==
    /\ OneRead
    /\ sent[1] = <<BooleanPrefix, ByteT, ByteT, CR, LF>>
    /\ results[1].kind = "Err"
    /\ results[1].val = "InvalidBool"

\* C19: Null decoding.  A _ frame is decoded to Null only when its header
\* payload is empty.
C19_NullDecoding ==
    (OneRead /\ sent[1][1] = NullPrefix /\ EndsInCrLf(sent[1])) =>
       (IsSome(results[1], FNull) <=> HeaderPayload(sent[1]) = <<>>)

\* C19 in one direction: _ CR LF is decoded to Null.
EmptyNullDecodes ==
    (OneRead /\ sent[1] = <<NullPrefix, CR, LF>>) => IsSome(results[1], FNull)

\* no String and no Error in the frame has one of the bytes in its payload
RECURSIVE TextIsFreeOf(_, _)
TextIsFreeOf(frame, bytes) ==
    CASE frame.tag \in {"String", "Error"} ->
            \A i \in 1..Len(frame.val) : frame.val[i] \notin bytes
      [] frame.tag = "Array" /\ frame.val # None ->
            \A i \in 1..Len(frame.val[1]) : TextIsFreeOf(frame.val[1][i], bytes)
      [] OTHER -> TRUE

\* C20: every String and every Error that read_frame returns, at top level
\* or in an array, has neither CR nor LF in its payload, whatever the input
\* and however it is split over stream reads.
C20_TextWithoutCrLf ==
    rres.kind = "Some" => TextIsFreeOf(rres.val, {CR, LF})

\* C20 for LF alone.
TextWithoutLf ==
    rres.kind = "Some" => TextIsFreeOf(rres.val, {LF})

(***************************************************************************)
(* The claims about the connection task, checked under SpecServer.         *)
(***************************************************************************)
\* the encodings of the replies, in the order apply returned them
RepliesEncoded == Concat([i \in 1..Len(served) |-> Encode(served[i])])

\* C5: a decode error closes the connection.  Once read_frame has returned
\* an error, the task applies no further command and writes no further
\* reply: the bytes behind the malformed frame are never taken for a
\* command.  (The part of the claim that a later command refutes; the claim
\* also says that read_frame is not called again.)
C5_NoCommandAfterDecodeError ==
    served_at_err >= 0 => Len(served) = served_at_err

\* C5 in full: once read_frame has returned an error, the task is out of
\* its loop.
C5_DecodeErrorCloses ==
    served_at_err >= 0 => (rpc = "idle" /\ mpc \notin {"dispatch", "apply"})

\* the client has sent well-formed frames only, as far as the task has read
WellFormedSoFar ==
    /\ served_at_err < 0
    /\ nframes <= Len(client)
    /\ \A i \in 1..nframes : client[i].frame # None

\* the frame in hand is the nframes-th of the client, and read_frame has
\* taken the client's bytes up to the end of it
InStep ==
    (mpc = "dispatch" /\ WellFormedSoFar) =>
        /\ Some(cur) = client[nframes].frame
        /\ pos = Len(ClientBytes(SubSeq(client, 1, nframes)))

\* the bytes of at most one Error frame
AtMostOneErrorFrame(bytes) ==
    \/ bytes = <<>>
    \/ /\ Len(bytes) >= 3
       /\ bytes[1] = ErrorPrefix
       /\ Rest(bytes, Len(bytes) - 2) = CRLF
       /\ \A i \in 1..(Len(bytes) - 1) : bytes[i] # LF

\* C6: a well-formed frame that is no command.  The task stays in its loop
\* and goes on to read the next frame, from the position right behind the
\* rejected frame (the read buffer and the stream are as read_frame left
\* them, which is at the end of that frame); the keystore is unchanged; no
\* reply is written for it but at most one Error frame.
C6_RejectedFrame ==
    [][/\ (mpc = "dispatch" /\ ~TryFrom(cur, now).ok) =>
            /\ mpc' = "read"
            /\ rpc' = "idle"
            /\ read_buf' = read_buf
            /\ stream_in' = stream_in
            /\ keystore' = keystore
            /\ Len(served') = Len(served)
            /\ Len(stream_out' \o write_buf') >= Len(stream_out \o write_buf)
            /\ AtMostOneErrorFrame(
                  Rest(stream_out' \o write_buf', Len(stream_out \o write_buf)))
       /\ InStep']_vars

\* a rejected frame was passed over and the command behind it served
C6_Witness ==
    /\ Len(client) = 2
    /\ client[1].frame = Some(FArray(Some(<<FInteger(7)>>)))
    /\ nframes = 2
    /\ served_at_err < 0
    /\ Len(served) = 1
    /\ stream_out = Encode(FBulk(Some(Pong)))

\* C7: the loop is sequential.  Whenever the task is reading a request (or
\* has left the loop), the reply of every command parsed so far has been
\* written: the stream holds the encodings of the replies, one for each
\* command, in the order of the requests.
C7_SequentialReplies ==
    mpc \in {"read", "exited", "panicked"} => stream_out = RepliesEncoded

\* C7 as far as it holds: write_frame has been called once for each parsed
\* command when the next request is read, and what the stream has accepted
\* or the write buffer still holds is the replies in request order.
RepliesInOrder ==
    mpc \in {"read", "exited", "panicked"} => stream_out \o write_buf = RepliesEncoded

\* C7 while no stream write has failed.
SequentialWhileWritesSucceed ==
    (wfails = 0 /\ mpc \in {"read", "exited", "panicked"})
        => (stream_out = RepliesEncoded /\ write_buf = <<>>)

\* C15: a write error closes the connection.  Once a stream write of
\* write_frame has failed, the task calls read_frame no more (and so applies
\* no further command and attempts no further write): it stays where the
\* failed write_frame returned.
C15_WriteErrorCloses ==
    wfails > 0 => (rpc = "idle" /\ mpc = "read")

\* what the code does instead: the bytes a failed write left in write_buf
\* go out in front of the reply of the next command
LeftoverGoesFirst ==
    [][(mpc = "apply" /\ mpc' = "read" /\ wfails' = wfails) =>
          /\ write_buf' = <<>>
          /\ stream_out' =
                stream_out \o write_buf \o Encode(ApplyReply(keystore, mcmd))]_vars

\* C23: the write buffer.  A write_frame whose stream write succeeds leaves
\* the write buffer empty, and the stream has received from it exactly the
\* encoding of its frame: nothing that an earlier write_frame left over
\* goes out in front of it.
C23_WriteBufferDiscipline ==
    [][(mpc = "apply" /\ mpc' = "read" /\ wfails' = wfails) =>
          /\ write_buf' = <<>>
          /\ stream_out' = stream_out \o Encode(ApplyReply(keystore, mcmd))]_vars

\* C23 while no stream write has failed: the buffer is empty between the
\* calls and the stream holds the encodings of the written frames in the
\* order of the calls.
WriteDisciplineWhileWritesSucceed ==
    /\ (hpc # "off" /\ writer = "write_frame") =>
          (write_buf = <<>> /\ stream_out = Concat(sent))
    /\ (mpc \in {"read", "dispatch", "apply", "exited", "panicked"} /\ wfails = 0) =>
          (write_buf = <<>> /\ stream_out = RepliesEncoded)

\* the task has left its loop: by the break of line 19, or unwound by a
\* panic
Exited == mpc \in {"exited", "panicked"}

\* C16: termination.  Whatever the client sent, with the stream at its end
\* (end-of-stream, or a stream read error that persists) the connection task
\* eventually leaves its loop.
C16_TaskTerminates == <>Exited

\* C16 for a stream that ends in end-of-stream.
TerminatesOnEof == (stream_end = "eof") => <>Exited

\* what happens on a stream whose reads fail for good: the task never
\* reaches the break of its loop
SpinsOnReadError == (stream_end = "error") => [](mpc # "exited")

(***************************************************************************)
(* The claims about Command::try_from, checked under SpecCommand.  In a    *)
(* step of try_from, cur is the frame it is handed, now the moment of the  *)
(* clock, and parsed' what it returns.                                     *)
(***************************************************************************)
ParseStep == mpc = "dispatch" /\ mpc' # "dispatch"

\* a String or a non-null Bulk, and the bytes it holds
IsBytesArg(frame) ==
    frame.tag = "String" \/ (frame.tag = "Bulk" /\ frame.val # None)
BytesOf(frame) == IF frame.tag = "String" THEN frame.val ELSE frame.val[1]

\* equal but for the case of ASCII letters
SameLetter(a, b) ==
    \/ a = b
    \/ a \in 65..90 /\ b = a + 32
    \/ b \in 65..90 /\ a = b + 32
EqualsIgnoringCase(s, t) ==
    Len(s) = Len(t) /\ \A i \in 1..Len(s) : SameLetter(s[i], t[i])

IsNonNullArray(frame) == frame.tag = "Array" /\ frame.val # None

\* the frame is an array whose first element names the command
Names(frame, name) ==
    /\ IsNonNullArray(frame)
    /\ Len(frame.val[1]) >= 1
    /\ IsBytesArg(frame.val[1][1])
    /\ EqualsIgnoringCase(BytesOf(frame.val[1][1]), name)

\* the bytes arguments each command requires behind its name
Required(name) ==
    CASE name = NamePing -> 0
      [] name = NameEcho -> 1
      [] name = NameGet -> 1
      [] name = NameSet -> 2

CommandNames == {NamePing, NameEcho, NameGet, NameSet}

OpOf(name) ==
    CASE name = NamePing -> "Ping"
      [] name = NameEcho -> "Echo"
      [] name = NameGet -> "Get"
      [] name = NameSet -> "Set"

\* the element is the option name EX or PX
IsOption(frame) ==
    /\ IsBytesArg(frame)
    /\ \/ EqualsIgnoringCase(BytesOf(frame), NameEx)
       \/ EqualsIgnoringCase(BytesOf(frame), NamePx)

\* the elements behind the name, as far as the command requires them, are
\* bytes arguments
RequiredAreBytes(args, name) ==
    \A i \in 2..(Required(name) + 1) : i <= Len(args) => IsBytesArg(args[i])

\* C12: arity.  An array parses to Ping only when nothing follows the name,
\* to Echo or Get only when exactly one bytes argument follows, to Set only
\* when exactly two bytes arguments follow and then nothing or one EX or PX
\* option with its argument; with fewer arguments than the command requires
\* the result is MissingArgument.
C12_CommandArity ==
    [][ParseStep =>
         \A name \in CommandNames :
            Names(cur, name) =>
               LET args == cur.val[1]
                   n == Len(args) - 1
               IN  /\ (parsed'.ok /\ name = NamePing) => n = 0
                   /\ (parsed'.ok /\ name \in {NameEcho, NameGet}) =>
                         (n = 1 /\ IsBytesArg(args[2]))
                   /\ (parsed'.ok /\ name = NameSet) =>
                         /\ n \in {2, 4}
                         /\ IsBytesArg(args[2]) /\ IsBytesArg(args[3])
                         /\ n = 4 => IsOption(args[4])
                   /\ (n < Required(name) /\ RequiredAreBytes(args, name)) =>
                         (~parsed'.ok /\ parsed'.err = "MissingArgument")]_vars

\* C12 as far as it holds: a command is never made of fewer arguments than
\* it requires, its required arguments are bytes, and too few of them is
\* MissingArgument.
ArityAtLeast ==
    [][ParseStep =>
         \A name \in CommandNames :
            Names(cur, name) =>
               LET args == cur.val[1]
                   n == Len(args) - 1
               IN  /\ parsed'.ok =>
                         (n >= Required(name) /\ RequiredAreBytes(args, name))
                   /\ (n < Required(name) /\ RequiredAreBytes(args, name)) =>
                         (~parsed'.ok /\ parsed'.err = "MissingArgument")]_vars

\* the number an option's argument gives: an Integer frame, or the decimal
\* digits a client sends as a Bulk or a String
ArgNumber(frame) ==
    IF frame.tag = "Integer" THEN Some(frame.val)
    ELSE IF IsBytesArg(frame) THEN ParseI64(BytesOf(frame))
    ELSE None

\* milliseconds of the unit of an option
UnitOf(frame) ==
    IF EqualsIgnoringCase(BytesOf(frame), NameEx) THEN 1000 ELSE 1

\* SET key value, with or without one option
IsSetRequest(frame) ==
    /\ Names(frame, NameSet)
    /\ Len(frame.val[1]) \in {3, 5}
    /\ IsBytesArg(frame.val[1][2])
    /\ IsBytesArg(frame.val[1][3])
    /\ Len(frame.val[1]) = 5 => IsOption(frame.val[1][4])

\* what C13 expects try_from to return for a SET request
ExpectedSet(frame, t_now, res) ==
    LET args == frame.val[1]
        key == BytesOf(args[2])
        value == BytesOf(args[3])
    IN  IF Len(args) = 3
        THEN res.ok /\ res.cmd = Set(key, value, None)
        ELSE LET number == ArgNumber(args[5])
             IN  IF number # None /\ number[1] >= 0
                 THEN /\ res.ok
                      /\ res.cmd =
                           Set(key, value,
                               Some(t_now + number[1] * UnitOf(args[4])))
                 ELSE ~res.ok

\* C13: the expiry option of SET.  For SET key value EX n or PX n, with n a
\* non-negative integer given as the option's argument, try_from returns Set
\* with expires = now + n seconds (EX) or + n milliseconds (PX); a negative
\* or non-numeric n is rejected; with no option expires is absent.
C13_SetExpiry ==
    [][(ParseStep /\ IsSetRequest(cur)) => ExpectedSet(cur, now, parsed')]_vars

\* C13 where the argument of the option is an Integer frame, or there is no
\* option.
SetExpiryIntegerArg ==
    [][(ParseStep /\ IsSetRequest(cur)
          /\ (Len(cur.val[1]) = 5 => cur.val[1][5].tag = "Integer"))
         => ExpectedSet(cur, now, parsed')]_vars

\* the number of an option's argument that is no Integer frame is refused as
\* WrongType
NumberAsBytesIsWrongType ==
    [][(ParseStep /\ IsSetRequest(cur) /\ Len(cur.val[1]) = 5
          /\ cur.val[1][5].tag # "Integer")
         => (~parsed'.ok /\ parsed'.err = "WrongType")]_vars

\* the frame with the name of its command in lower case, as a Bulk
WithName(frame, name) ==
    FArray(Some(<<FBulk(Some(name))>> \o Tail(frame.val[1])))

\* C14: the classification of errors.  NotAnArray exactly for the frames
\* that are no non-null Array; WrongType when the name, or a required
\* argument, is neither a String nor a non-null Bulk; UnknownCommand exactly
\* when the name is, letter case aside, none of PING, ECHO, GET, SET; a name
\* in any letter case selects the command of its lower-case form, with the
\* same result.
C14_ErrorClassification ==
    [][ParseStep =>
         /\ (~IsNonNullArray(cur)) <=> (~parsed'.ok /\ parsed'.err = "NotAnArray")
         /\ (IsNonNullArray(cur) /\ Len(cur.val[1]) >= 1) =>
               LET args == cur.val[1]
               IN  /\ ~IsBytesArg(args[1]) =>
                         (~parsed'.ok /\ parsed'.err = "WrongType")
                   /\ IsBytesArg(args[1]) =>
                         ((\A name \in CommandNames : ~Names(cur, name))
                            <=> (~parsed'.ok /\ parsed'.err = "UnknownCommand"))
                   /\ \A name \in CommandNames :
                         Names(cur, name) =>
                            /\ (~RequiredAreBytes(args, name)) =>
                                  (~parsed'.ok /\ parsed'.err = "WrongType")
                            /\ parsed'.ok => parsed'.cmd.op = OpOf(name)
                            /\ parsed' = TryFrom(WithName(cur, name), now)]_vars

\* pIng has been parsed to Ping
C14_Witness ==
    /\ cur = FArray(Some(<<FString(<<112, 73, 110, 103>>)>>))
    /\ mpc = "apply"
    /\ parsed = CmdOk(Ping)
    /\ mcmd = Ping

(***************************************************************************)
(* The claims about the keystore, checked under SpecDb.  lastcmd is the    *)
(* command of the latest apply that returned, lastby the task that made    *)
(* it, dbreply its reply, lastset[k] the latest Set applied on k.          *)
(***************************************************************************)
\* C8: the get/set law.  A Get on k returns Bulk(v) for the value v of the
\* most recent Set on k, the null Bulk when no Set on k was applied; a Set
\* replies Bulk("OK").
C8_GetSetLaw ==
    /\ lastcmd.op = "Get" =>
          dbreply = IF lastset[lastcmd.key] = None THEN FBulk(None)
                    ELSE FBulk(Some(lastset[lastcmd.key][1].value))
    /\ lastcmd.op = "Set" => dbreply = FBulk(Some(Ok))

\* a Get has returned the value of the second Set on its key
C8_Witness ==
    /\ lastcmd = Get(<<107>>)
    /\ lastset[<<107>>] # None
    /\ lastset[<<107>>][1].value = <<119>>
    /\ dbreply = FBulk(Some(<<119>>))
    /\ keystore[<<107>>] = <<119>>

\* C9: expiry.  A Get that is applied when the clock has passed the deadline
\* of the record of its key returns the null Bulk.
C9_ExpiredIsAbsent ==
    [][\A t \in Tasks :
          (/\ tpc[t] = "locked"
           /\ tpc'[t] = "idle"
           /\ tcmd[t].op = "Get"
           /\ lastset[tcmd[t].key] # None
           /\ lastset[tcmd[t].key][1].expires # None
           /\ now > lastset[tcmd[t].key][1].expires[1])
          => dbreply' = FBulk(None)]_vars

\* C9, the other half: a Get before the deadline returns the value.
GetBeforeDeadline ==
    [][\A t \in Tasks :
          (/\ tpc[t] = "locked"
           /\ tpc'[t] = "idle"
           /\ tcmd[t].op = "Get"
           /\ lastset[tcmd[t].key] # None
           /\ lastset[tcmd[t].key][1].expires # None
           /\ now <= lastset[tcmd[t].key][1].expires[1])
          => dbreply' = FBulk(Some(lastset[tcmd[t].key][1].value))]_vars

\* the keystore holds, for each key, the value of the latest Set applied on it
KeystoreIsLatestSets ==
    /\ DOMAIN keystore = {k \in Keys : lastset[k] # None}
    /\ \A k \in DOMAIN keystore : keystore[k] = lastset[k][1].value

\* C10: atomicity.  At most one task is between lock and the end of its
\* access, and it is the one the mutex names; the keystore is what the
\* applies leave when taken one after the other in the order of their
\* accesses; the value a Get returns is a value some Set gave whole; and a
\* task that reads a key which it was the last to set reads its own value.
C10_Atomicity ==
    /\ \A t, u \in Tasks : (tpc[t] = "locked" /\ tpc[u] = "locked") => t = u
    /\ \A t \in Tasks : tpc[t] = "locked" <=> mutex = t
    /\ KeystoreIsLatestSets
    /\ (lastcmd.op = "Get" /\ dbreply.val # None) =>
          /\ dbreply.val[1] \in Values
          /\ lastset[lastcmd.key] # None
          /\ lastset[lastcmd.key][1].by = lastby =>
                dbreply.val[1] = lastset[lastcmd.key][1].value

\* two tasks have set distinct keys, one waits for the lock the other holds,
\* and the latest Get read back the value its own task had set
C10_Witness ==
    /\ lastset[<<107>>] # None /\ lastset[<<107>>][1].by = 1
    /\ lastset[<<108>>] # None /\ lastset[<<108>>][1].by = 2
    /\ lastcmd = Get(<<108>>)
    /\ lastby = 2
    /\ dbreply = FBulk(Some(lastset[<<108>>][1].value))
    /\ tpc[1] = "locked"
    /\ tpc[2] = "idle"

\* the step is an apply of cmd: the access of a Set or a Get under the
\* guard, or a Ping or an Echo
IsApplyOf(cmd) ==
    \/ \E t \in Tasks :
          tpc[t] = "locked" /\ tpc'[t] = "idle" /\ cmd = tcmd[t]
    \/ /\ tpc' = tpc
       /\ now' = now
       /\ cmd = lastcmd'
       /\ cmd.op \in {"Ping", "Echo"}

\* the commands of the tasks at any moment of the clock
AllCommands == UNION {Commands(t) : t \in 0..MaxNow}

\* apply(cmd) leaves the records of all keys but those of touched
OnlyChanges(touched) ==
    \A k \in (DOMAIN keystore \cup DOMAIN keystore') \ touched :
       Lookup(keystore', k) = Lookup(keystore, k)

\* C24 as stated: apply(cmd) changes the keystore if and only if
\* is_write(cmd); Ping, Echo and Get leave every record unchanged; Set k
\* changes only the record of k.
C24_FrameCondition ==
    [][\A cmd \in AllCommands :
          IsApplyOf(cmd) =>
             /\ (keystore' # keystore) <=> IsWrite(cmd)
             /\ ~IsWrite(cmd) => OnlyChanges({})
             /\ IsWrite(cmd) => OnlyChanges({cmd.key})]_vars

\* C24 as amended: apply(cmd) changes the keystore only if is_write(cmd),
\* and a Set k v does change it unless k holds v already; Ping, Echo and Get
\* leave every record unchanged; Set k v leaves k with v and the records of
\* all other keys unchanged.
C24_FrameConditionAmended ==
    [][\A cmd \in AllCommands :
          IsApplyOf(cmd) =>
             /\ (keystore' # keystore) <=>
                   (IsWrite(cmd) /\ Lookup(keystore, cmd.key) # Some(cmd.value))
             /\ ~IsWrite(cmd) => OnlyChanges({})
             /\ IsWrite(cmd) =>
                   /\ OnlyChanges({cmd.key})
                   /\ Lookup(keystore', cmd.key) = Some(cmd.value)]_vars

\* k has been set to w after l was set to v and k to v: the record of l is
\* as it was
C24_Witness ==
    /\ lastcmd.op = "Set"
    /\ lastcmd.key = <<107>>
    /\ lastcmd.value = <<119>>
    /\ DOMAIN keystore = Keys
    /\ keystore[<<107>>] = <<119>>
    /\ keystore[<<108>>] = <<118>>
    /\ lastset[<<108>>] # None
    /\ lastset[<<108>>][1].value = <<118>>

====
